---- MODULE Spec2Model ----
(***************************************************************************)
(* A model of src/og.py (secure_static_server): the certificate            *)
(* provisioner ensure_certificate with its two generation strategies, the  *)
(* request handler of the TLS listener (CORSRequestHandler), the handler   *)
(* of the redirect listener (RedirectToHTTPS), the orchestrator main and   *)
(* the accept loops of the two listeners.                                  *)
(*                                                                         *)
(* Six specifications share the variables: SpecCert (the provisioner,      *)
(* one caller), SpecConcurrent (the provisioner, two callers at a time),   *)
(* SpecTLS (one request per connection on the TLS listener), SpecRedirect  *)
(* (the redirect listener), SpecMain (one run of main) and SpecServe (the  *)
(* connections of both listeners while they serve).  Each keeps the        *)
(* variables of the parts it does not use at their initial value.          *)
(***************************************************************************)
EXTENDS Integers, Sequences, FiniteSets, TLC

VARIABLES
  env,      \* what the host offers: the cryptography package, the openssl tool
  fs,       \* the certificate directory: path -> {} (absent) or {run id}
  tmp,      \* the temporary openssl configuration files that exist
  pc,       \* per process: its position inside ensure_certificate
  cur,      \* per process: the record of the call in progress
  prev,     \* the record of the last call that ended
  last,     \* the record of the call that ended most recently before prev
  ncalls,   \* calls started so far
  nruns,    \* generation runs started so far (the next run id is nruns + 1)
  nfaults,  \* I/O faults the environment has injected so far
  issued,   \* the certificates written so far, each with its generation run
  cfg,      \* TLS listener: the settings attached to the server (lines 298-303)
  tree,     \* TLS listener: the files and directories under the root
  req,      \* TLS listener: the request of the connection handled last
  resp,     \* TLS listener: what the handler sent for it
  rport,    \* redirect listener: https_port attached to the server (line 319)
  rreq,     \* redirect listener: the request handled last
  rresp,    \* redirect listener: what the handler sent for it
  args,     \* main: the parsed command line
  mpc,      \* main: the position of the main thread
  exit_status, \* main: {} while the process runs, {n} once it exited with n
  srv,      \* main: per listener, its server object: none, listening, closed
  threads,  \* main: per listener, its worker: none, serving, stopped
  events,   \* main: what the run printed, logged or met so far
  acceptor, \* serving: per listener, what its accept loop is doing
  client    \* serving: per client, its connection

certVars == <<env, fs, tmp, pc, cur, prev, last, ncalls, nruns, nfaults, issued>>

tlsVars == <<cfg, tree, req, resp>>

redirVars == <<rport, rreq, rresp>>

mainVars == <<args, mpc, exit_status, srv, threads, events>>

connVars == <<acceptor, client>>

vars == <<certVars, tlsVars, redirVars, mainVars, connVars>>

(***************************************************************************)
(* Bounds of the provisioner model.                                        *)
(***************************************************************************)
MaxCalls == 2
MaxFaults == 2

\* The processes that call ensure_certificate: MainProc is the process of
\* the run that is followed; a second one can run main at the same time.
Procs == {1, 2}
MainProc == 1

(***************************************************************************)
(* Paths.  ensure_certificate computes both paths from its arguments.      *)
(***************************************************************************)
CertDir == "certs"
Names == {"localhost", "dev"}

CertPath(dir, name) == <<dir, name, "cert.pem">>
KeyPath(dir, name) == <<dir, name, "key.pem">>

AllPaths == {CertPath(CertDir, n) : n \in Names} \cup {KeyPath(CertDir, n) : n \in Names}

Exists(path) == fs[path] # {}

\* The files of an earlier run of the program carry run id 0.
OldRun == {0}

NoCall == [id |-> 0, name |-> "", tried |-> <<>>, succ |-> "none", wrote |-> {},
           runs |-> {}, result |-> "none", ret |-> <<>>, hadCert |-> FALSE,
           hadKey |-> FALSE, certAtEnd |-> {}, keyAtEnd |-> {}, pending |-> "none",
           days |-> 0, now |-> 0]

Rec(p) == cur[p]
CertOf(rec) == CertPath(CertDir, rec.name)
KeyOf(rec) == KeyPath(CertDir, rec.name)
NextRun == nruns + 1
Fault == nfaults < MaxFaults /\ nfaults' = nfaults + 1
NoFault == nfaults' = nfaults

\* The call of process p ends: a return or a raise of ensure_certificate.
\* It is used after fs' is set.
EndCall(p, rec, result) ==
  /\ pc' = [pc EXCEPT ![p] = "idle"]
  /\ cur' = [cur EXCEPT ![p] = NoCall]
  /\ last' = prev
  /\ prev' = [rec EXCEPT !.result = result,
                         !.ret = IF result = "returned"
                                 THEN <<CertOf(rec), KeyOf(rec)>> ELSE <<>>,
                         !.certAtEnd = fs'[CertOf(rec)],
                         !.keyAtEnd = fs'[KeyOf(rec)]]

\* --days (line 339) and the time of a generation run, in days.
Days == {1, 825}
Times == {100, 101}

\* ensure_certificate, lines 186-189: ensure_dir, then the two paths.
\* mkdir may raise (the path is a file, no permission) and nothing catches
\* it; on a directory that exists (it holds a file) mkdir(exist_ok=True)
\* does nothing.
Call(p) ==
  /\ pc[p] = "idle"
  /\ UNCHANGED <<tlsVars, redirVars, mainVars, connVars, issued>>
  /\ ncalls < MaxCalls
  /\ ncalls' = ncalls + 1
  /\ \E name \in Names, days \in Days :
       LET rec == [NoCall EXCEPT !.id = ncalls + 1, !.name = name, !.result = "running",
                                 !.days = days,
                                 !.hadCert = Exists(CertPath(CertDir, name)),
                                 !.hadKey = Exists(KeyPath(CertDir, name))]
       IN \/ /\ NoFault
             /\ pc' = [pc EXCEPT ![p] = "check_cert"]
             /\ cur' = [cur EXCEPT ![p] = rec]
             /\ UNCHANGED <<env, fs, tmp, prev, last, nruns>>
          \/ /\ \A path \in AllPaths : ~Exists(path)
             /\ Fault
             /\ UNCHANGED <<env, fs, tmp, nruns>>
             /\ EndCall(p, rec, "exception")

\* A mutant of CheckCert: the test of line 190 is lost.
CheckCertAlwaysGenerate(p) ==
  /\ pc[p] = "check_cert"
  /\ UNCHANGED <<tlsVars, redirVars, mainVars, connVars, issued>>
  /\ pc' = [pc EXCEPT ![p] = "native"]
  /\ UNCHANGED <<env, fs, tmp, cur, prev, last, ncalls, nruns, nfaults>>

\* line 190, left operand: cert_path.exists()
CheckCert(p) ==
  /\ pc[p] = "check_cert"
  /\ UNCHANGED <<tlsVars, redirVars, mainVars, connVars, issued>>
  /\ pc' = [pc EXCEPT ![p] = IF Exists(CertOf(Rec(p))) THEN "check_key" ELSE "native"]
  /\ UNCHANGED <<env, fs, tmp, cur, prev, last, ncalls, nruns, nfaults>>

\* A mutant of CheckKey: the early return of line 191 is lost.
CheckKeyNoReturn(p) ==
  /\ pc[p] = "check_key"
  /\ UNCHANGED <<tlsVars, redirVars, mainVars, connVars, issued>>
  /\ pc' = [pc EXCEPT ![p] = "native"]
  /\ UNCHANGED <<env, fs, tmp, cur, prev, last, ncalls, nruns, nfaults>>

\* line 190, right operand, and the return of line 191
CheckKey(p) ==
  /\ pc[p] = "check_key"
  /\ UNCHANGED <<tlsVars, redirVars, mainVars, connVars, issued>>
  /\ IF Exists(KeyOf(Rec(p)))
     THEN /\ UNCHANGED <<env, fs, tmp, ncalls, nruns, nfaults>>
          /\ EndCall(p, Rec(p), "returned")
     ELSE /\ pc' = [pc EXCEPT ![p] = "native"]
          /\ UNCHANGED <<env, fs, tmp, cur, prev, last, ncalls, nruns, nfaults>>

\* generate_self_signed_with_cryptography, lines 75-82: the imports.  Without
\* the package the strategy returns False and line 196 tries openssl.
NativeImport(p) ==
  /\ pc[p] = "native"
  /\ UNCHANGED <<tlsVars, redirVars, mainVars, connVars, issued>>
  /\ cur' = [cur EXCEPT ![p].tried = Append(@, "native")]
  /\ pc' = [pc EXCEPT ![p] = IF env.cryptography THEN "n_generate" ELSE "openssl"]
  /\ UNCHANGED <<env, fs, tmp, prev, last, ncalls, nruns, nfaults>>

\* The certificate of lines 85-120: subject, key, validity, extensions.
NativeCertificate(days, now) ==
  [subject |-> <<"CN", "localhost">>,
   key |-> [alg |-> "RSA", bits |-> 2048],
   notBefore |-> now - 1,
   notAfter |-> now + days,
   san |-> [names |-> {"localhost", "127.0.0.1", "::1"}, critical |-> FALSE],
   bc |-> [ca |-> FALSE, critical |-> TRUE],
   eku |-> [usages |-> {"serverAuth"}, critical |-> FALSE],
   ku |-> [usages |-> {"digitalSignature", "keyEncipherment"}, critical |-> TRUE]]

\* The configuration text of lines 141-161; a value is its list of items.
OpenSSLConfig ==
  [default_bits |-> 2048,
   CN |-> "localhost",
   basicConstraints |-> <<"CA:FALSE">>,
   keyUsage |-> <<"digitalSignature", "keyEncipherment">>,
   extendedKeyUsage |-> <<"serverAuth">>,
   alt_names |-> {"localhost", "127.0.0.1", "::1"}]

\* openssl marks an extension critical when its value starts with the item
\* "critical"; the other items are the content of the extension.
ExtCritical(value) == value # <<>> /\ Head(value) = "critical"
ExtItems(value) == {value[i] : i \in 1..Len(value)} \ {"critical"}

\* What openssl req -x509 -newkey rsa:2048 -days <days> -config <cfg>
\* (lines 168-173) issues: valid from the time of the run for <days> days,
\* with the extensions of the section x509_extensions names.
OpenSSLCertificate(days, now) ==
  [subject |-> <<"CN", OpenSSLConfig.CN>>,
   key |-> [alg |-> "RSA", bits |-> 2048],
   notBefore |-> now,
   notAfter |-> now + days,
   san |-> [names |-> OpenSSLConfig.alt_names, critical |-> FALSE],
   bc |-> [ca |-> "CA:TRUE" \in ExtItems(OpenSSLConfig.basicConstraints),
           critical |-> ExtCritical(OpenSSLConfig.basicConstraints)],
   eku |-> [usages |-> ExtItems(OpenSSLConfig.extendedKeyUsage),
            critical |-> ExtCritical(OpenSSLConfig.extendedKeyUsage)],
   ku |-> [usages |-> ExtItems(OpenSSLConfig.keyUsage),
           critical |-> ExtCritical(OpenSSLConfig.keyUsage)]]

\* The run id of the generation run the call is in.
RunOf(rec) == CHOOSE r \in rec.runs : \A q \in rec.runs : q <= r

\* The entry of issued for the certificate file a call writes.
Issue(rec, by, cert) ==
  [run |-> RunOf(rec), by |-> by, days |-> rec.days, now |-> rec.now, cert |-> cert]

\* lines 84-127: the key and the certificate are built in memory: one run.
\* An exception here (or an interrupt) leaves the function and the caller.
NativeGenerate(p) ==
  /\ pc[p] = "n_generate"
  /\ UNCHANGED <<tlsVars, redirVars, mainVars, connVars, issued>>
  /\ nruns' = NextRun
  /\ \E now \in Times :
     LET rec == [Rec(p) EXCEPT !.runs = @ \cup {NextRun}, !.now = now]
     IN \/ /\ NoFault
           /\ cur' = [cur EXCEPT ![p] = rec]
           /\ pc' = [pc EXCEPT ![p] = "n_write_key"]
           /\ UNCHANGED <<env, fs, tmp, prev, last, ncalls>>
        \/ /\ Fault
           /\ UNCHANGED <<env, fs, tmp, ncalls>>
           /\ EndCall(p, rec, "exception")

\* line 128: key_path.write_bytes(key_bytes)
NativeWriteKey(p) ==
  /\ pc[p] = "n_write_key"
  /\ UNCHANGED <<tlsVars, redirVars, mainVars, connVars, issued>>
  /\ \/ /\ NoFault
        /\ fs' = [fs EXCEPT ![KeyOf(Rec(p))] = {RunOf(Rec(p))}]
        /\ cur' = [cur EXCEPT ![p].wrote = @ \cup {KeyOf(Rec(p))}]
        /\ pc' = [pc EXCEPT ![p] = "n_write_cert"]
        /\ UNCHANGED <<env, tmp, prev, last, ncalls, nruns>>
     \/ /\ Fault
        /\ UNCHANGED <<env, fs, tmp, ncalls, nruns>>
        /\ EndCall(p, Rec(p), "exception")

\* lines 129-134 and the return of line 194: the certificate is written, the
\* permissions are set (failures suppressed), the strategy returns True.
NativeWriteCert(p) ==
  /\ pc[p] = "n_write_cert"
  /\ UNCHANGED <<tlsVars, redirVars, mainVars, connVars>>
  /\ \/ /\ NoFault
        /\ fs' = [fs EXCEPT ![CertOf(Rec(p))] = {RunOf(Rec(p))}]
        /\ issued' = issued \cup
             {Issue(Rec(p), "native", NativeCertificate(Rec(p).days, Rec(p).now))}
        /\ UNCHANGED <<env, tmp, ncalls, nruns>>
        /\ EndCall(p, [Rec(p) EXCEPT !.wrote = @ \cup {CertOf(Rec(p))},
                                     !.succ = "native"], "returned")
     \/ /\ Fault
        /\ UNCHANGED <<env, fs, tmp, ncalls, nruns, issued>>
        /\ EndCall(p, Rec(p), "exception")

\* generate_self_signed_with_openssl, lines 137-138, and the raise of line 199
\* when the tool is not on PATH.
OpenSSLIsTool(p) ==
  /\ pc[p] = "openssl"
  /\ UNCHANGED <<tlsVars, redirVars, mainVars, connVars, issued>>
  /\ LET rec == [Rec(p) EXCEPT !.tried = Append(@, "openssl")]
     IN IF env.openssl
        THEN /\ cur' = [cur EXCEPT ![p] = rec]
             /\ pc' = [pc EXCEPT ![p] = "o_tmp"]
             /\ UNCHANGED <<env, fs, tmp, prev, last, ncalls, nruns, nfaults>>
        ELSE /\ UNCHANGED <<env, fs, tmp, ncalls, nruns, nfaults>>
             /\ EndCall(p, rec, "RuntimeError")

\* The temporary file of a call (NamedTemporaryFile picks a fresh name).
TmpOf(p) == <<p, Rec(p).id>>

\* lines 163-165: the temporary configuration file (delete=False).  A failed
\* write raises outside the try of line 167 and leaves the file.
OpenSSLTempConfig(p) ==
  /\ pc[p] = "o_tmp"
  /\ UNCHANGED <<tlsVars, redirVars, mainVars, connVars, issued>>
  /\ \/ /\ NoFault
        /\ tmp' = tmp \cup {TmpOf(p)}
        /\ pc' = [pc EXCEPT ![p] = "o_run"]
        /\ UNCHANGED <<env, fs, cur, prev, last, ncalls, nruns>>
     \/ /\ Fault
        /\ \E created \in BOOLEAN :
             tmp' = IF created THEN tmp \cup {TmpOf(p)} ELSE tmp
        /\ UNCHANGED <<env, fs, ncalls, nruns>>
        /\ EndCall(p, Rec(p), "exception")

\* lines 168-173: subprocess.run starts openssl; an OSError (the tool cannot
\* be executed) is not a CalledProcessError and is not caught by line 179.
OpenSSLRun(p) ==
  /\ pc[p] = "o_run"
  /\ UNCHANGED <<tlsVars, redirVars, mainVars, connVars, issued>>
  /\ nruns' = NextRun
  /\ \/ /\ NoFault
        /\ \E now \in Times :
             cur' = [cur EXCEPT ![p].runs = @ \cup {NextRun}, ![p].now = now]
        /\ pc' = [pc EXCEPT ![p] = "o_keyout"]
     \/ /\ Fault
        /\ cur' = [cur EXCEPT ![p].runs = @ \cup {NextRun}, ![p].pending = "oserror"]
        /\ pc' = [pc EXCEPT ![p] = "o_finally"]
  /\ UNCHANGED <<env, fs, tmp, prev, last, ncalls>>

\* openssl req -newkey ... -keyout: the tool writes the key first.  A tool
\* that fails exits non-zero: CalledProcessError, caught by line 179.
OpenSSLKeyout(p) ==
  /\ pc[p] = "o_keyout"
  /\ UNCHANGED <<tlsVars, redirVars, mainVars, connVars, issued>>
  /\ \/ /\ NoFault
        /\ fs' = [fs EXCEPT ![KeyOf(Rec(p))] = {RunOf(Rec(p))}]
        /\ cur' = [cur EXCEPT ![p].wrote = @ \cup {KeyOf(Rec(p))}]
        /\ pc' = [pc EXCEPT ![p] = "o_certout"]
     \/ /\ Fault
        /\ fs' = fs
        /\ cur' = [cur EXCEPT ![p].pending = "failed"]
        /\ pc' = [pc EXCEPT ![p] = "o_finally"]
  /\ UNCHANGED <<env, tmp, prev, last, ncalls, nruns>>

\* openssl req -x509 ... -out: then the certificate; exit status 0.
OpenSSLCertout(p) ==
  /\ pc[p] = "o_certout"
  /\ UNCHANGED <<tlsVars, redirVars, mainVars, connVars>>
  /\ \/ /\ NoFault
        /\ fs' = [fs EXCEPT ![CertOf(Rec(p))] = {RunOf(Rec(p))}]
        /\ issued' = issued \cup
             {Issue(Rec(p), "openssl", OpenSSLCertificate(Rec(p).days, Rec(p).now))}
        /\ cur' = [cur EXCEPT ![p].wrote = @ \cup {CertOf(Rec(p))},
                              ![p].pending = "ok"]
     \/ /\ Fault
        /\ fs' = fs
        /\ issued' = issued
        /\ cur' = [cur EXCEPT ![p].pending = "failed"]
  /\ pc' = [pc EXCEPT ![p] = "o_finally"]
  /\ UNCHANGED <<env, tmp, prev, last, ncalls, nruns>>

\* lines 174-184 and 196-203: the finally clause unlinks the configuration
\* file (failures suppressed); then True is returned, or False (and line 199
\* raises RuntimeError), or the OSError goes on to the caller.
OpenSSLFinally(p) ==
  /\ pc[p] = "o_finally"
  /\ UNCHANGED <<tlsVars, redirVars, mainVars, connVars, issued>>
  /\ \/ NoFault /\ tmp' = tmp \ {TmpOf(p)}
     \/ Fault /\ tmp' = tmp
  /\ UNCHANGED <<env, fs, ncalls, nruns>>
  /\ EndCall(p, [Rec(p) EXCEPT !.succ = IF Rec(p).pending = "ok" THEN "openssl" ELSE @,
                               !.pending = "none"],
             CASE Rec(p).pending = "ok" -> "returned"
               [] Rec(p).pending = "failed" -> "RuntimeError"
               [] OTHER -> "exception")


(***************************************************************************)
(* The TLS listener.  CORSRequestHandler extends the library's             *)
(* SimpleHTTPRequestHandler and keeps its protocol_version HTTP/1.0, so    *)
(* every connection carries one request.  Requests are HTTP/1.x.           *)
(***************************************************************************)
OriginA == "https://a.example"
OriginB == "https://b.example"
OriginC == "https://c.example"

\* --allow-origin as a string of tokens: origins, "," and " ".
AllowPolicies ==
  { <<"*">>,
    <<OriginA, ",", OriginB>>,
    <<OriginA, ",", " ", OriginB, " ">>,
    <<",", " ", ",", OriginA>>,
    <<" ", "*">>,
    <<>> }

Configs == [allow : AllowPolicies, creds : BOOLEAN, spa : BOOLEAN,
            coep : BOOLEAN, coop : BOOLEAN, corp : BOOLEAN]

\* The served tree: directories and files, as normalised paths.
TreeWithIndex ==
  [dirs |-> {<<>>, <<"dir">>, <<".well-known">>},
   files |-> {<<"index.html">>, <<"file.txt">>, <<".well-known", "token">>}]
TreeWithoutIndex ==
  [dirs |-> {<<>>, <<"dir">>, <<".well-known">>},
   files |-> {<<"file.txt">>, <<".well-known", "token">>}]
Trees == {TreeWithIndex, TreeWithoutIndex}

\* A request target: its segments, whether it ends in "/", whether it has a query.
Target(segs, slash, query) == [segs |-> segs, slash |-> slash, query |-> query]
Targets ==
  { Target(<<>>, TRUE, FALSE),
    Target(<<"index.html">>, FALSE, FALSE),
    Target(<<"file.txt">>, FALSE, FALSE),
    Target(<<"file.txt">>, FALSE, TRUE),
    Target(<<"file.txt">>, TRUE, FALSE),
    Target(<<"dir">>, FALSE, FALSE),
    Target(<<"dir">>, TRUE, FALSE),
    Target(<<"missing">>, FALSE, FALSE),
    Target(<<"missing">>, FALSE, TRUE),
    Target(<<"missing", "deep">>, TRUE, FALSE),
    Target(<<".well-known", "token">>, FALSE, FALSE),
    Target(<<".well-known", "missing">>, FALSE, FALSE),
    Target(<<".well-known">>, FALSE, FALSE),
    Target(<<".well-known">>, TRUE, FALSE),
    Target(<<"dir", "..", ".well-known", "missing">>, FALSE, FALSE) }

IndexTarget == Target(<<"index.html">>, FALSE, FALSE)

Methods == {"GET", "HEAD", "OPTIONS", "POST"}
\* A header is absent ({}) or present with one value ({v}).
OriginHeaders == {{}, {OriginA}, {OriginB}, {OriginC}, {""}}
RequestHeaders == {{}, {""}, {"x-custom, content-type"}}

\* line: "ok" when the request line and the headers parse; otherwise the
\* library answers with send_error before self.headers is set.
GoodRequests ==
  [line : {"ok"}, method : Methods, path : Targets, origin : OriginHeaders,
   acrh : RequestHeaders, ims : BOOLEAN]
BadRequest(kind) ==
  [line |-> kind, method |-> "", path |-> Target(<<>>, TRUE, FALSE), origin |-> {},
   acrh |-> {}, ims |-> FALSE]
BadLines == {"bad_version", "too_long", "bad_headers"}

NoRequest == BadRequest("none")
NoResponse ==
  [sent |-> FALSE, status |-> 0, headers |-> <<>>, body |-> "none",
   rewritten |-> FALSE, served |-> Target(<<>>, TRUE, FALSE), statted |-> FALSE]

HeaderValue(h) == CHOOSE v \in h : TRUE

\* str.split(","): the pieces between the commas.
RECURSIVE SplitComma(_, _, _)
SplitComma(s, i, piece) ==
  IF i > Len(s) THEN <<piece>>
  ELSE IF s[i] = "," THEN <<piece>> \o SplitComma(s, i + 1, <<>>)
  ELSE SplitComma(s, i + 1, Append(piece, s[i]))

\* str.strip(): leading and trailing white space removed.
RECURSIVE LStrip(_)
LStrip(s) == IF s # <<>> /\ Head(s) = " " THEN LStrip(Tail(s)) ELSE s
RECURSIVE RStrip(_)
RStrip(s) == IF s # <<>> /\ s[Len(s)] = " " THEN RStrip(SubSeq(s, 1, Len(s) - 1)) ELSE s
Strip(s) == RStrip(LStrip(s))

\* A mutant of AllowedList: the entries are not stripped.
AllowedListNoStrip(allow) ==
  LET pieces == SplitComma(allow, 1, <<>>)
  IN {pieces[i] : i \in {j \in 1..Len(pieces) : Strip(pieces[j]) # <<>>}}

\* line 233: [o.strip() for o in allow.split(",") if o.strip()]
AllowedList(allow) ==
  LET pieces == SplitComma(allow, 1, <<>>)
  IN {Strip(pieces[i]) : i \in {j \in 1..Len(pieces) : Strip(pieces[j]) # <<>>}}

FixedMethods == "GET, POST, PUT, PATCH, DELETE, OPTIONS, HEAD"

\* A mutant of SendCorsHeaders: a request's Origin is echoed under "*" too.
SendCorsHeadersEchoAlways(c, r) ==
  (IF r.origin # {} /\ HeaderValue(r.origin) # ""
   THEN << <<"Access-Control-Allow-Origin", HeaderValue(r.origin)>>, <<"Vary", "Origin">> >>
   ELSE IF c.allow = <<"*">> THEN << <<"Access-Control-Allow-Origin", "*">> >> ELSE <<>>)
  \o << <<"Access-Control-Allow-Methods", FixedMethods>> >>
  \o << <<"Access-Control-Allow-Headers",
          IF r.acrh # {} /\ HeaderValue(r.acrh) # "" THEN HeaderValue(r.acrh) ELSE "*">> >>
  \o (IF c.creds THEN << <<"Access-Control-Allow-Credentials", "true">> >> ELSE <<>>)

\* _send_cors_headers, lines 225-241
SendCorsHeaders(c, r) ==
  (IF c.allow = <<"*">>
   THEN << <<"Access-Control-Allow-Origin", "*">> >>
   ELSE IF /\ r.origin # {}
           /\ HeaderValue(r.origin) # ""
           /\ <<HeaderValue(r.origin)>> \in AllowedList(c.allow)
        THEN << <<"Access-Control-Allow-Origin", HeaderValue(r.origin)>>,
                <<"Vary", "Origin">> >>
        ELSE <<>>)
  \o << <<"Access-Control-Allow-Methods", FixedMethods>> >>
  \o << <<"Access-Control-Allow-Headers",
          IF r.acrh # {} /\ HeaderValue(r.acrh) # "" THEN HeaderValue(r.acrh) ELSE "*">> >>
  \o (IF c.creds THEN << <<"Access-Control-Allow-Credentials", "true">> >> ELSE <<>>)

\* A mutant of SendSecurityHeaders: the resource policy header is only sent
\* together with the opener policy header.
SendSecurityHeadersNested(c) ==
  (IF c.coep THEN << <<"Cross-Origin-Embedder-Policy", "require-corp">> >> ELSE <<>>)
  \o (IF c.coop
      THEN << <<"Cross-Origin-Opener-Policy", "same-origin">> >>
           \o (IF c.corp THEN << <<"Cross-Origin-Resource-Policy", "same-origin">> >>
               ELSE <<>>)
      ELSE <<>>)
  \o << <<"X-Content-Type-Options", "nosniff">>,
        <<"Referrer-Policy", "no-referrer-when-downgrade">> >>

\* _send_security_headers, lines 243-252
SendSecurityHeaders(c) ==
  (IF c.coep THEN << <<"Cross-Origin-Embedder-Policy", "require-corp">> >> ELSE <<>>)
  \o (IF c.coop THEN << <<"Cross-Origin-Opener-Policy", "same-origin">> >> ELSE <<>>)
  \o (IF c.corp THEN << <<"Cross-Origin-Resource-Policy", "same-origin">> >> ELSE <<>>)
  \o << <<"X-Content-Type-Options", "nosniff">>,
        <<"Referrer-Policy", "no-referrer-when-downgrade">> >>

\* The library's send_response: the status line, Server and Date are buffered.
SendResponse(status) ==
  [NoResponse EXCEPT !.status = status,
                     !.headers = << <<"Server", "SimpleHTTP">>, <<"Date", "now">> >>]

SendHeader(out, name, value) == [out EXCEPT !.headers = Append(@, <<name, value>>)]

\* end_headers, lines 254-257.  self.headers is set by the library's
\* parse_request once the headers are parsed; for a request refused before
\* that, _send_cors_headers raises AttributeError at line 228 and the
\* buffered status line and headers are never flushed.
EndHeaders(c, r, out) ==
  IF r.line # "ok"
  THEN NoResponse
  ELSE [out EXCEPT !.sent = TRUE,
                   !.headers = @ \o SendCorsHeaders(c, r) \o SendSecurityHeaders(c)]

\* The library's send_error: an error page (no body for HEAD).
SendError(c, r, status) ==
  LET out == SendHeader(SendHeader(SendHeader(SendResponse(status),
                 "Connection", "close"), "Content-Type", "text/html"),
                 "Content-Length", "n")
  IN [EndHeaders(c, r, out) EXCEPT
        !.body = IF EndHeaders(c, r, out).sent /\ r.method # "HEAD" THEN "error page" ELSE "none"]

\* posixpath.normpath and the filter of translate_path: ".." removes the
\* segment before it, and is dropped at the root.
RECURSIVE Normalize(_, _)
Normalize(segs, acc) ==
  IF segs = <<>> THEN acc
  ELSE IF Head(segs) = ".."
       THEN Normalize(Tail(segs), IF acc = <<>> THEN <<>> ELSE SubSeq(acc, 1, Len(acc) - 1))
       ELSE Normalize(Tail(segs), Append(acc, Head(segs)))

\* The library's translate_path: the query is dropped, the path normalised.
TranslatePath(t) == Normalize(t.segs, <<>>)

IsDir(tr, t) == TranslatePath(t) \in tr.dirs
IsFile(tr, t) == TranslatePath(t) \in tr.files /\ ~t.slash
\* os.path.exists of the translated path (a file path ending in "/" does not exist)
PathExists(tr, t) == IsDir(tr, t) \/ IsFile(tr, t)

\* self.path.startswith("/.well-known/"), line 268
StartsWithWellKnown(t) ==
  /\ Len(t.segs) >= 1
  /\ t.segs[1] = ".well-known"
  /\ (Len(t.segs) >= 2 \/ t.slash)

FileBody(p) ==
  CASE p = <<"index.html">> -> "root index document"
    [] p = <<"file.txt">> -> "file.txt"
    [] OTHER -> "well-known token"

\* The library's send_head and the copy of the body (do_GET / do_HEAD).
ServeStatic(c, tr, r, t) ==
  LET withBody(out, body) ==
        [out EXCEPT !.body = IF r.method = "GET" THEN body ELSE "none",
                    !.served = t, !.statted = TRUE]
      serveFile(p) ==
        IF r.ims
        THEN withBody(EndHeaders(c, r, SendResponse(304)), "none")
        ELSE withBody(EndHeaders(c, r,
               SendHeader(SendHeader(SendHeader(SendResponse(200),
                 "Content-type", "guessed"), "Content-Length", "n"),
                 "Last-Modified", "mtime")), FileBody(p))
      notFound == [SendError(c, r, 404) EXCEPT !.served = t, !.statted = TRUE]
  IN IF IsDir(tr, t)
     THEN IF ~t.slash
          THEN withBody(EndHeaders(c, r,
                 SendHeader(SendHeader(SendResponse(301), "Location", "path/"),
                            "Content-Length", "0")), "none")
          ELSE IF Append(TranslatePath(t), "index.html") \in tr.files
               THEN serveFile(Append(TranslatePath(t), "index.html"))
               ELSE withBody(EndHeaders(c, r,
                      SendHeader(SendHeader(SendResponse(200),
                        "Content-type", "text/html"), "Content-Length", "n")),
                      "directory listing")
     ELSE IF t.slash \/ ~IsFile(tr, t)
          THEN notFound
          ELSE serveFile(TranslatePath(t))

\* A mutant of DoOPTIONS: the preflight is answered like a GET.
DoOPTIONSAsGet(c, tr, r) == ServeStatic(c, tr, [r EXCEPT !.method = "GET"], r.path)

\* do_OPTIONS, lines 259-261
DoOPTIONS(c, tr, r) ==
  [EndHeaders(c, r, SendResponse(204)) EXCEPT !.served = r.path]

\* A mutant of DoGET: the fallback of lines 266-269 is lost.
DoGETNoRewrite(c, tr, r) == ServeStatic(c, tr, r, r.path)

\* A mutant of DoGET: the well-known test of line 268 is lost.
DoGETNoWellKnown(c, tr, r) ==
  IF c.spa /\ ~PathExists(tr, r.path)
  THEN [ServeStatic(c, tr, r, IndexTarget) EXCEPT !.rewritten = TRUE]
  ELSE ServeStatic(c, tr, r, r.path)

\* do_GET, lines 263-270
DoGET(c, tr, r) ==
  IF c.spa
  THEN IF ~PathExists(tr, r.path) /\ ~StartsWithWellKnown(r.path)
       THEN [ServeStatic(c, tr, r, IndexTarget) EXCEPT !.rewritten = TRUE]
       ELSE ServeStatic(c, tr, r, r.path)
  ELSE ServeStatic(c, tr, r, r.path)

\* The library's do_HEAD: send_head only.
DoHEAD(c, tr, r) == ServeStatic(c, tr, r, r.path)

\* The library's handle_one_request: the dispatch on the method.
Handle(c, tr, r) ==
  CASE r.line = "too_long" -> SendError(c, r, 414)
    [] r.line = "bad_version" -> SendError(c, r, 400)
    [] r.line = "bad_headers" -> SendError(c, r, 431)
    [] r.method = "OPTIONS" -> DoOPTIONS(c, tr, r)
    [] r.method = "GET" -> DoGET(c, tr, r)
    [] r.method = "HEAD" -> DoHEAD(c, tr, r)
    [] OTHER -> [SendError(c, r, 501) EXCEPT !.served = r.path]

TLSUnchanged == UNCHANGED <<certVars, redirVars, mainVars, connVars, cfg, tree>>

\* One connection: with protocol_version HTTP/1.0 the connection is closed
\* after its first request.
HandleRequest(r) ==
  /\ req' = r
  /\ resp' = Handle(cfg, tree, r)
  /\ TLSUnchanged

HandleOPTIONS ==
  /\ req = NoRequest
  /\ \E r \in GoodRequests : r.method = "OPTIONS" /\ HandleRequest(r)
HandleGET ==
  /\ req = NoRequest
  /\ \E r \in GoodRequests : r.method = "GET" /\ HandleRequest(r)
HandleHEAD ==
  /\ req = NoRequest
  /\ \E r \in GoodRequests : r.method = "HEAD" /\ HandleRequest(r)
HandleUnsupported ==
  /\ req = NoRequest
  /\ \E r \in GoodRequests : r.method = "POST" /\ HandleRequest(r)
HandleRefused ==
  /\ req = NoRequest
  /\ \E k \in BadLines : HandleRequest(BadRequest(k))

CertIdle ==
  /\ env = [cryptography |-> TRUE, openssl |-> TRUE]
  /\ fs = [q \in AllPaths |-> OldRun]
  /\ tmp = {}
  /\ pc = [p \in Procs |-> "idle"]
  /\ cur = [p \in Procs |-> NoCall]
  /\ prev = NoCall
  /\ last = NoCall
  /\ ncalls = 0
  /\ nruns = 0
  /\ nfaults = 0
  /\ issued = {}

TLSIdle ==
  /\ cfg = [allow |-> <<"*">>, creds |-> FALSE, spa |-> FALSE, coep |-> FALSE,
            coop |-> FALSE, corp |-> FALSE]
  /\ tree = TreeWithIndex
  /\ req = NoRequest
  /\ resp = NoResponse

(***************************************************************************)
(* The redirect listener.  Strings are sequences of tokens, ":" being a    *)
(* token of its own.                                                       *)
(***************************************************************************)
HttpsPorts == {"8443", "443"}
HostHeaders ==
  { {},
    {<<"example.local">>},
    {<<"example.local", ":", "8000">>},
    {<<"127.0.0.1", ":", "8000">>},
    {<<"[", ":", ":", "1", "]">>},
    {<<"[", ":", ":", "1", "]", ":", "8000">>} }

\* The request target as sent: self.path.
RECURSIVE RawSegs(_)
RawSegs(segs) ==
  IF segs = <<>> THEN <<>>
  ELSE IF Len(segs) = 1 THEN <<Head(segs)>>
  ELSE <<Head(segs), "/">> \o RawSegs(Tail(segs))
RawPath(t) ==
  <<"/">> \o RawSegs(t.segs)
  \o (IF t.slash /\ t.segs # <<>> THEN <<"/">> ELSE <<>>)
  \o (IF t.query THEN <<"?x=1">> ELSE <<>>)

\* host.split(":")[0]: what precedes the first ":".
RECURSIVE BeforeFirstColon(_)
BeforeFirstColon(h) ==
  IF h = <<>> \/ Head(h) = ":" THEN <<>> ELSE <<Head(h)>> \o BeforeFirstColon(Tail(h))

NoRedirectRequest ==
  [method |-> "", host |-> {}, path |-> Target(<<>>, TRUE, FALSE), ims |-> FALSE]
NoRedirectResponse == [status |-> 0, location |-> <<>>, headers |-> {}, body |-> "none"]

RedirectMethods == {"GET", "HEAD", "POST", "OPTIONS"}
RedirectRequests ==
  [method : RedirectMethods, host : HostHeaders, path : Targets, ims : BOOLEAN]

\* RedirectToHTTPS.do_GET, lines 275-284
RedirectDoGET(port, r) ==
  LET given == IF r.host = {} THEN <<>> ELSE HeaderValue(r.host)
      host == IF \E i \in 1..Len(given) : given[i] = ":"
              THEN BeforeFirstColon(given) ELSE given
  IN [NoRedirectResponse EXCEPT
        !.status = 307,
        !.location = <<"https://">> \o host \o <<":", port>> \o RawPath(r.path),
        !.headers = {"Location"}]

\* The library's send_error as RedirectToHTTPS inherits it (end_headers is
\* not overridden, line 274): an error page, no body for HEAD.
RedirectSendError(r, status) ==
  [NoRedirectResponse EXCEPT
     !.status = status,
     !.headers = {"Connection", "Content-Type", "Content-Length"},
     !.body = IF r.method = "HEAD" THEN "none" ELSE "error page"]

\* RedirectToHTTPS overrides do_GET only (line 275): a HEAD runs the
\* library's do_HEAD, which is send_head on the directory of line 317.
RedirectDoHEAD(tr, r) ==
  LET t == r.path
      file == IF r.ims
              THEN [NoRedirectResponse EXCEPT !.status = 304]
              ELSE [NoRedirectResponse EXCEPT
                      !.status = 200,
                      !.headers = {"Content-type", "Content-Length", "Last-Modified"}]
  IN IF IsDir(tr, t)
     THEN IF ~t.slash
          THEN [NoRedirectResponse EXCEPT
                  !.status = 301,
                  !.location = RawPath([t EXCEPT !.slash = TRUE]),
                  !.headers = {"Location", "Content-Length"}]
          ELSE IF Append(TranslatePath(t), "index.html") \in tr.files
               THEN file
               ELSE [NoRedirectResponse EXCEPT
                       !.status = 200,
                       !.headers = {"Content-type", "Content-Length"}]
     ELSE IF t.slash \/ ~IsFile(tr, t)
          THEN RedirectSendError(r, 404)
          ELSE file

\* The library's handle_one_request on the redirect listener: do_<method>
\* is looked up on the handler; a method without one is answered 501.
RedirectHandle(port, tr, r) ==
  CASE r.method = "GET" -> RedirectDoGET(port, r)
    [] r.method = "HEAD" -> RedirectDoHEAD(tr, r)
    [] OTHER -> RedirectSendError(r, 501)

RedirectRequest(r) ==
  /\ rreq' = r
  /\ rresp' = RedirectHandle(rport, tree, r)
  /\ UNCHANGED <<certVars, tlsVars, mainVars, connVars, rport>>

RedirectGET ==
  /\ rreq = NoRedirectRequest
  /\ \E r \in RedirectRequests : r.method = "GET" /\ RedirectRequest(r)
RedirectHEAD ==
  /\ rreq = NoRedirectRequest
  /\ \E r \in RedirectRequests : r.method = "HEAD" /\ RedirectRequest(r)
RedirectUnsupported ==
  /\ rreq = NoRedirectRequest
  /\ \E r \in RedirectRequests : r.method \notin {"GET", "HEAD"} /\ RedirectRequest(r)

RedirectIdle ==
  /\ rport = "8443"
  /\ rreq = NoRedirectRequest
  /\ rresp = NoRedirectResponse

(***************************************************************************)
(* The command line of main and the state of one run.                      *)
(***************************************************************************)
Listeners == {"https", "http"}

\* --root after resolve(): a directory, a file, or nothing at that path.
RootKinds == {"dir", "file", "missing"}
\* --port and --http-port are any int (lines 325-326); "70000" stands for a
\* port outside 0..65535.
PortArgs == {"8443", "70000"}
HttpPortArgs == {"8000", "70000"}
InRange(port) == port # "70000"

\* --allow-origin, --allow-credentials, --spa, --coep, --coop, --corp
FlagArgs ==
  { [allow |-> <<"*">>, creds |-> FALSE, spa |-> FALSE, coep |-> FALSE,
     coop |-> FALSE, corp |-> FALSE],
    [allow |-> <<OriginA, ",", OriginB>>, creds |-> TRUE, spa |-> TRUE, coep |-> TRUE,
     coop |-> TRUE, corp |-> TRUE] }

Args ==
  [root : RootKinds, generate_only : BOOLEAN, no_http_redirect : BOOLEAN,
   port : PortArgs, http_port : HttpPortArgs, flags : FlagArgs]

DefaultArgs ==
  [root |-> "dir", generate_only |-> FALSE, no_http_redirect |-> FALSE,
   port |-> "8443", http_port |-> "8000",
   flags |-> [allow |-> <<"*">>, creds |-> FALSE, spa |-> FALSE, coep |-> FALSE,
              coop |-> FALSE, corp |-> FALSE]]

MainIdle ==
  /\ args = DefaultArgs
  /\ mpc = "start"
  /\ exit_status = {}
  /\ srv = [l \in Listeners |-> "none"]
  /\ threads = [l \in Listeners |-> "none"]
  /\ events = {}

(***************************************************************************)
(* The clients of the two listeners.                                       *)
(***************************************************************************)
\* The number of clients that connect while the listeners serve.
MaxClients == 3
Clients == 1..MaxClients

\* Where a client stops sending: nowhere, before the end of the TLS
\* handshake, or in the middle of its request.
StallKinds == {"none", "handshake", "request"}

NoClient == [to |-> "none", stage |-> "idle", stall |-> "none"]

\* 0: the accept loop of the listener waits in its selector.
InSelect == 0

ServeIdle ==
  /\ acceptor = [l \in Listeners |-> InSelect]
  /\ client = [c \in Clients |-> NoClient]

RedirectInit ==
  /\ CertIdle
  /\ MainIdle
  /\ ServeIdle
  /\ cfg = [allow |-> <<"*">>, creds |-> FALSE, spa |-> FALSE, coep |-> FALSE,
            coop |-> FALSE, corp |-> FALSE]
  /\ tree \in Trees
  /\ req = NoRequest
  /\ resp = NoResponse
  /\ rport \in HttpsPorts
  /\ rreq = NoRedirectRequest
  /\ rresp = NoRedirectResponse

RedirectNext ==
  \/ RedirectGET
  \/ RedirectHEAD
  \/ RedirectUnsupported

SpecRedirect == RedirectInit /\ [][RedirectNext]_vars

TLSInit ==
  /\ CertIdle
  /\ RedirectIdle
  /\ MainIdle
  /\ ServeIdle
  /\ cfg \in Configs
  /\ tree \in Trees
  /\ req = NoRequest
  /\ resp = NoResponse

TLSNext ==
  \/ HandleOPTIONS
  \/ HandleGET
  \/ HandleHEAD
  \/ HandleUnsupported
  \/ HandleRefused

SpecTLS == TLSInit /\ [][TLSNext]_vars

(***************************************************************************)
(* The certificate directory at the start: for each base name no file, a   *)
(* lone file of an earlier run, or the pair of one earlier run.            *)
(***************************************************************************)
InitialDirs ==
  {f \in [AllPaths -> {{}, OldRun}] : TRUE}

Envs == [cryptography : BOOLEAN, openssl : BOOLEAN]

CertInit ==
  /\ TLSIdle
  /\ RedirectIdle
  /\ MainIdle
  /\ ServeIdle
  /\ env \in Envs
  /\ fs \in InitialDirs
  /\ tmp = {}
  /\ pc = [p \in Procs |-> "idle"]
  /\ cur = [p \in Procs |-> NoCall]
  /\ prev = NoCall
  /\ last = NoCall
  /\ ncalls = 0
  /\ nruns = 0
  /\ nfaults = 0
  /\ issued = {}

CertStep(p) ==
  \/ Call(p)
  \/ CheckCert(p)
  \/ CheckKey(p)
  \/ NativeImport(p)
  \/ NativeGenerate(p)
  \/ NativeWriteKey(p)
  \/ NativeWriteCert(p)
  \/ OpenSSLIsTool(p)
  \/ OpenSSLTempConfig(p)
  \/ OpenSSLRun(p)
  \/ OpenSSLKeyout(p)
  \/ OpenSSLCertout(p)
  \/ OpenSSLFinally(p)

CertNext == CertStep(MainProc)

SpecCert == CertInit /\ [][CertNext]_vars

(***************************************************************************)
(* Two processes run main at the same time on one certificate directory    *)
(* that holds no file: their calls of ensure_certificate interleave at     *)
(* every existence test and every file write.                              *)
(***************************************************************************)
ConcurrentInit ==
  /\ TLSIdle
  /\ RedirectIdle
  /\ MainIdle
  /\ ServeIdle
  /\ env \in Envs
  /\ fs = [q \in AllPaths |-> {}]
  /\ tmp = {}
  /\ pc = [p \in Procs |-> "idle"]
  /\ cur = [p \in Procs |-> NoCall]
  /\ prev = NoCall
  /\ last = NoCall
  /\ ncalls = 0
  /\ nruns = 0
  /\ nfaults = 0
  /\ issued = {}

ConcurrentNext == \E p \in Procs : CertStep(p)

SpecConcurrent == ConcurrentInit /\ [][ConcurrentNext]_vars

(***************************************************************************)
(* main, lines 322-429.  The main thread validates the root, calls         *)
(* ensure_certificate, constructs the servers, starts one daemon worker    *)
(* per server and joins them.                                              *)
(***************************************************************************)
Exit(code, event) ==
  /\ mpc' = "exited"
  /\ exit_status' = {code}
  /\ events' = events \cup {event}

\* A mutant of MainCheckRoot: only root.exists() is tested.
MainCheckRootExistsOnly ==
  /\ mpc = "start"
  /\ IF args.root = "missing"
     THEN Exit(2, "error: root")
     ELSE /\ mpc' = "ensure"
          /\ UNCHANGED <<exit_status, events>>
  /\ UNCHANGED <<args, srv, threads, certVars, tlsVars, redirVars, connVars>>

\* lines 352-355: the root is validated before anything else.
MainCheckRoot ==
  /\ mpc = "start"
  /\ IF args.root # "dir"
     THEN Exit(2, "error: root")
     ELSE /\ mpc' = "ensure"
          /\ UNCHANGED <<exit_status, events>>
  /\ UNCHANGED <<args, srv, threads, certVars, tlsVars, redirVars, connVars>>

\* line 359: the one call of ensure_certificate, run by the main thread.
MainEnsureCertificate ==
  /\ mpc = "ensure"
  /\ ncalls = 0 \/ pc[MainProc] # "idle"
  /\ CertStep(MainProc)

\* A mutant of MainAfterEnsure: the except clause of lines 360-362 is lost.
MainAfterEnsureNoExit ==
  /\ mpc = "ensure"
  /\ ncalls > 0
  /\ pc[MainProc] = "idle"
  /\ IF args.generate_only
     THEN Exit(0, "printed paths")
     ELSE /\ mpc' = "create_https"
          /\ UNCHANGED <<exit_status, events>>
  /\ UNCHANGED <<args, srv, threads, certVars, tlsVars, redirVars, connVars>>

\* A mutant of MainAfterEnsure: the test of line 364 is lost.
MainAfterEnsureNoGenerateOnly ==
  /\ mpc = "ensure"
  /\ ncalls > 0
  /\ pc[MainProc] = "idle"
  /\ IF prev.result # "returned"
     THEN Exit(3, "error: provisioning")
     ELSE /\ mpc' = "create_https"
          /\ UNCHANGED <<exit_status, events>>
  /\ UNCHANGED <<args, srv, threads, certVars, tlsVars, redirVars, connVars>>

\* lines 360-366: a raise of ensure_certificate ends the process with 3;
\* with --generate-only the paths are printed and the process ends with 0.
MainAfterEnsure ==
  /\ mpc = "ensure"
  /\ ncalls > 0
  /\ pc[MainProc] = "idle"
  /\ IF prev.result # "returned"
     THEN Exit(3, "error: provisioning")
     ELSE IF args.generate_only
          THEN Exit(0, "printed paths")
          ELSE /\ mpc' = "create_https"
               /\ UNCHANGED <<exit_status, events>>
  /\ UNCHANGED <<args, srv, threads, certVars, tlsVars, redirVars, connVars>>

\* ThreadingHTTPServer((host, port), handler), lines 295 and 318: the bind.
\* A port outside 0..65535 raises OverflowError; otherwise the bind
\* succeeds or raises OSError (address in use, no permission, bad host).
BindOutcomes(port) ==
  IF InRange(port) THEN {"ok", "OSError"} ELSE {"OverflowError"}

\* ctx.load_cert_chain, line 312, on the files ensure_certificate returned:
\* a certificate and a key of different runs do not match; the files of an
\* earlier run hold whatever they hold; ssl.SSLError is an OSError.
LoadCertChain(certfile, keyfile) ==
  IF fs[certfile] # fs[keyfile] \/ fs[certfile] = {}
  THEN {"SSLError"}
  ELSE IF fs[certfile] = OldRun THEN {"ok", "SSLError"} ELSE {"ok"}

\* lines 368-378 and create_https_server, lines 291-314.  The except clause
\* of line 376 catches OSError, whatever statement of create_https_server
\* raised it.
MainCreateHTTPS ==
  /\ mpc = "create_https"
  /\ \E bind \in BindOutcomes(args.port) :
       CASE bind = "OverflowError" ->
              /\ Exit(1, "https bind: OverflowError")
              /\ UNCHANGED <<srv, cfg>>
         [] bind = "OSError" ->
              /\ Exit(4, "https bind: OSError")
              /\ UNCHANGED <<srv, cfg>>
         [] OTHER ->
              \E load \in LoadCertChain(prev.ret[1], prev.ret[2]) :
                IF load = "ok"
                THEN /\ srv' = [srv EXCEPT !["https"] = "listening"]
                     /\ cfg' = args.flags
                     /\ mpc' = "create_http"
                     /\ events' = events \cup {"https bound"}
                     /\ UNCHANGED exit_status
                ELSE /\ mpc' = "exited"
                     /\ exit_status' = {4}
                     /\ events' = events \cup {"https bound", "https load_cert_chain: SSLError"}
                     /\ UNCHANGED <<srv, cfg>>
  /\ UNCHANGED <<args, threads, certVars, tree, req, resp, redirVars, connVars>>

\* lines 380-386 and create_http_redirect_server, lines 316-320.
MainCreateHTTP ==
  /\ mpc = "create_http"
  /\ IF args.no_http_redirect
     THEN /\ mpc' = "start_threads"
          /\ UNCHANGED <<srv, rport, exit_status, events>>
     ELSE \E bind \in BindOutcomes(args.http_port) :
            CASE bind = "OverflowError" ->
                   /\ Exit(1, "http bind: OverflowError")
                   /\ UNCHANGED <<srv, rport>>
              [] bind = "OSError" ->
                   /\ mpc' = "start_threads"
                   /\ events' = events \cup {"http bind: OSError", "warning: redirector not started"}
                   /\ UNCHANGED <<srv, rport, exit_status>>
              [] OTHER ->
                   /\ srv' = [srv EXCEPT !["http"] = "listening"]
                   /\ rport' = args.port
                   /\ mpc' = "start_threads"
                   /\ events' = events \cup {"http bound"}
                   /\ UNCHANGED exit_status
  /\ UNCHANGED <<args, threads, certVars, tlsVars, rreq, rresp, connVars>>

\* lines 415-423: one daemon thread per server that was constructed.
MainStartThreads ==
  /\ mpc = "start_threads"
  /\ threads' = [l \in Listeners |-> IF srv[l] = "listening" THEN "serving" ELSE "none"]
  /\ mpc' = "join"
  /\ UNCHANGED <<args, exit_status, srv, events, certVars, tlsVars, redirVars, connVars>>

\* serve, lines 405-413: serve_forever leaves its loop only by an exception
\* (main never calls shutdown); the finally clause then closes the socket.
WorkerExits(l) ==
  /\ mpc = "join"
  /\ threads[l] = "serving"
  /\ threads' = [threads EXCEPT ![l] = "stopped"]
  /\ srv' = [srv EXCEPT ![l] = "closed"]
  /\ UNCHANGED <<args, mpc, exit_status, events, certVars, tlsVars, redirVars, connVars>>

\* lines 425-427: every join returned, main returns.
MainJoinReturns ==
  /\ mpc = "join"
  /\ \A l \in Listeners : threads[l] # "serving"
  /\ Exit(0, "joined")
  /\ UNCHANGED <<args, srv, threads, certVars, tlsVars, redirVars, connVars>>

\* lines 428-429: the interrupt is raised in the main thread, blocked in a
\* join; main prints and returns.  The workers are daemon threads: the
\* interpreter exits without running them any further.
MainInterrupt ==
  /\ mpc = "join"
  /\ \E l \in Listeners : threads[l] = "serving"
  /\ Exit(0, "interrupt: shutting down")
  /\ UNCHANGED <<args, srv, threads, certVars, tlsVars, redirVars, connVars>>

MainInit ==
  /\ TLSIdle
  /\ RedirectIdle
  /\ ServeIdle
  /\ env \in Envs
  /\ fs \in InitialDirs
  /\ tmp = {}
  /\ pc = [p \in Procs |-> "idle"]
  /\ cur = [p \in Procs |-> NoCall]
  /\ prev = NoCall
  /\ last = NoCall
  /\ ncalls = 0
  /\ nruns = 0
  /\ nfaults = 0
  /\ issued = {}
  /\ args \in Args
  /\ mpc = "start"
  /\ exit_status = {}
  /\ srv = [l \in Listeners |-> "none"]
  /\ threads = [l \in Listeners |-> "none"]
  /\ events = {}

MainNext ==
  \/ MainCheckRoot
  \/ MainEnsureCertificate
  \/ MainAfterEnsure
  \/ MainCreateHTTPS
  \/ MainCreateHTTP
  \/ MainStartThreads
  \/ \E l \in Listeners : WorkerExits(l)
  \/ MainJoinReturns
  \/ MainInterrupt

SpecMain == MainInit /\ [][MainNext]_vars

(***************************************************************************)
(* The accept loops.  Each worker runs serve_forever of a                  *)
(* ThreadingHTTPServer: the loop accepts a connection (get_request) and    *)
(* hands it to a new thread (process_request).  No socket has a timeout.   *)
(***************************************************************************)
\* A client connects: the kernel completes the TCP handshake and queues the
\* connection, whatever the accept loop is doing.
Connect(c) ==
  /\ client[c].stage = "idle"
  /\ \E l \in Listeners, k \in StallKinds :
       /\ k = "handshake" => l = "https"
       /\ threads[l] = "serving"
       /\ client' = [client EXCEPT ![c] = [to |-> l, stage |-> "queued", stall |-> k]]
  /\ UNCHANGED <<acceptor, certVars, tlsVars, redirVars, mainVars>>

\* get_request of the HTTPS listener.  Line 313 replaced the listening
\* socket by an SSLSocket: its accept() wraps the new connection and runs
\* the TLS handshake before it returns, in the thread of the accept loop.
AcceptTLS ==
  /\ threads["https"] = "serving"
  /\ acceptor["https"] = InSelect
  /\ \E c \in Clients :
       /\ client[c].to = "https"
       /\ client[c].stage = "queued"
       /\ acceptor' = [acceptor EXCEPT !["https"] = c]
       /\ client' = [client EXCEPT ![c].stage = "handshake"]
  /\ UNCHANGED <<certVars, tlsVars, redirVars, mainVars>>

\* The handshake ends once the client has sent its part; accept() returns
\* and process_request starts the thread of the connection.
HandshakeTLS ==
  /\ acceptor["https"] # InSelect
  /\ client[acceptor["https"]].stall # "handshake"
  /\ client' = [client EXCEPT ![acceptor["https"]].stage = "handling"]
  /\ acceptor' = [acceptor EXCEPT !["https"] = InSelect]
  /\ UNCHANGED <<certVars, tlsVars, redirVars, mainVars>>

\* get_request and process_request of the redirect listener: a plain accept.
AcceptHTTP ==
  /\ threads["http"] = "serving"
  /\ acceptor["http"] = InSelect
  /\ \E c \in Clients :
       /\ client[c].to = "http"
       /\ client[c].stage = "queued"
       /\ client' = [client EXCEPT ![c].stage = "handling"]
  /\ UNCHANGED <<acceptor, certVars, tlsVars, redirVars, mainVars>>

\* The thread of a connection reads the request and answers it.
Answer(c) ==
  /\ client[c].stage = "handling"
  /\ client[c].stall # "request"
  /\ client' = [client EXCEPT ![c].stage = "answered"]
  /\ UNCHANGED <<acceptor, certVars, tlsVars, redirVars, mainVars>>

\* Both listeners were constructed and their workers started.
MainServing ==
  /\ args = DefaultArgs
  /\ mpc = "join"
  /\ exit_status = {}
  /\ srv = [l \in Listeners |-> "listening"]
  /\ threads = [l \in Listeners |-> "serving"]
  /\ events = {"https bound", "http bound"}

ServeInit ==
  /\ CertIdle
  /\ TLSIdle
  /\ RedirectIdle
  /\ MainServing
  /\ ServeIdle

ServeNext ==
  \/ \E c \in Clients : Connect(c)
  \/ AcceptTLS
  \/ HandshakeTLS
  \/ AcceptHTTP
  \/ \E c \in Clients : Answer(c)

\* The threads of the accept loops and of the connections keep running.
ServeFairness ==
  /\ WF_vars(AcceptTLS)
  /\ WF_vars(HandshakeTLS)
  /\ WF_vars(AcceptHTTP)
  /\ \A c \in Clients : WF_vars(Answer(c))

SpecServe == ServeInit /\ [][ServeNext]_vars /\ ServeFairness

(***************************************************************************)
(* Claims about the provisioner.  prev is the call that ended last, last   *)
(* the call that ended before it.                                          *)
(***************************************************************************)
Ended(rec) == rec.result \in {"returned", "RuntimeError", "exception"}
FreshSuccess(rec) == rec.result = "returned" /\ ~rec.hadCert /\ ~rec.hadKey

\* C1: after a successful call on a directory that held neither file of the
\* base name, the next call for the same base name invokes no strategy,
\* starts no generation run and writes no file; when it returns (only a
\* failing mkdir keeps it from returning) it returns the pair the first call
\* returned; generation ran exactly once over the two calls.
C1_TwoCallsGenerateOnce ==
  (FreshSuccess(last) /\ Ended(prev) /\ prev.name = last.name)
    => /\ prev.tried = <<>>
       /\ prev.wrote = {}
       /\ prev.runs = {}
       /\ Cardinality(last.runs) = 1
       /\ prev.result # "RuntimeError"
       /\ (prev.result = "returned" => prev.ret = last.ret)
       /\ last.ret = <<CertPath(CertDir, last.name), KeyPath(CertDir, last.name)>>

C1_Witness ==
  /\ FreshSuccess(last)
  /\ prev.result = "returned"
  /\ prev.name = last.name
  /\ prev.ret = last.ret
  /\ last.succ = "openssl"

\* C2: a successful call that found a file missing rewrote both files from
\* one generation run, and whenever ensure_certificate has returned
\* successfully both files exist and come from the same generation run.
C2_PairFromOneRun ==
  prev.result = "returned"
    => /\ prev.certAtEnd # {}
       /\ prev.keyAtEnd = prev.certAtEnd
       /\ (~(prev.hadCert /\ prev.hadKey)
             => /\ Cardinality(prev.runs) = 1
                /\ prev.wrote = {CertOf(prev), KeyOf(prev)})

\* C3: the strategies are invoked in the order native, openssl; openssl is
\* not invoked after native succeeded; and a call in which a strategy was
\* invoked fails only with both strategies invoked and neither succeeded,
\* the failure being the RuntimeError that names both dependencies.
C3_FailureOnlyWhenExhausted ==
  Ended(prev)
    => /\ prev.tried \in {<<>>, <<"native">>, <<"native", "openssl">>}
       /\ (prev.succ = "native" => prev.tried = <<"native">>)
       /\ ((prev.result # "returned" /\ prev.tried # <<>>)
             => /\ prev.tried = <<"native", "openssl">>
                /\ prev.succ = "none"
                /\ prev.result = "RuntimeError")

(***************************************************************************)
(* Claims about the TLS listener.                                          *)
(***************************************************************************)
HasHeader(out, n) == \E i \in 1..Len(out.headers) : out.headers[i][1] = n
HeaderCount(out, n) == Cardinality({i \in 1..Len(out.headers) : out.headers[i][1] = n})
Position(out, n) == CHOOSE i \in 1..Len(out.headers) : out.headers[i][1] = n
ValueOf(out, n) == out.headers[Position(out, n)][2]

\* o is one of the entries of the comma-separated list, white space around
\* the entry not counted.
IsListEntry(o, allow) ==
  \E i \in 1..Len(allow) :
    /\ allow[i] = o
    /\ o \notin {"", " ", ","}
    /\ \E a \in 1..i : /\ (a = 1 \/ allow[a - 1] = ",")
                       /\ \A k \in a..(i - 1) : allow[k] = " "
    /\ \E b \in i..Len(allow) : /\ (b = Len(allow) \/ allow[b + 1] = ",")
                                /\ \A k \in (i + 1)..b : allow[k] = " "

Granted == req.origin # {} /\ IsListEntry(HeaderValue(req.origin), cfg.allow)

\* C4: under an allow-list policy a response carries
\* Access-Control-Allow-Origin exactly when the request has an Origin that
\* is an entry of the list; it then echoes that Origin and Vary: Origin is
\* set; otherwise neither header is sent, and status and body are those of
\* the same request without Origin.
C4_AllowListGrant ==
  (req.line = "ok" /\ cfg.allow # <<"*">>)
    => /\ resp.sent
       /\ HasHeader(resp, "Access-Control-Allow-Origin") <=> Granted
       /\ Granted => /\ ValueOf(resp, "Access-Control-Allow-Origin") = HeaderValue(req.origin)
                     /\ HeaderCount(resp, "Access-Control-Allow-Origin") = 1
                     /\ HasHeader(resp, "Vary")
                     /\ ValueOf(resp, "Vary") = "Origin"
       /\ ~Granted => ~HasHeader(resp, "Vary")
       /\ resp.status = Handle(cfg, tree, [req EXCEPT !.origin = {}]).status
       /\ resp.body = Handle(cfg, tree, [req EXCEPT !.origin = {}]).body

C4_Witness ==
  /\ cfg.allow = <<OriginA, ",", " ", OriginB, " ">>
  /\ req.line = "ok"
  /\ req.origin = {OriginB}
  /\ resp.sent
  /\ ValueOf(resp, "Access-Control-Allow-Origin") = OriginB
  /\ ValueOf(resp, "Vary") = "Origin"

\* C5: under the policy "*" every response carries
\* Access-Control-Allow-Origin: * and no Vary header.
C5_WildcardNoVary ==
  (cfg.allow = <<"*">> /\ resp.sent)
    => /\ HeaderCount(resp, "Access-Control-Allow-Origin") = 1
       /\ ValueOf(resp, "Access-Control-Allow-Origin") = "*"
       /\ ~HasHeader(resp, "Vary")

C5_Witness ==
  /\ cfg.allow = <<"*">>
  /\ req.origin = {OriginA}
  /\ req.method = "HEAD"
  /\ resp.sent
  /\ resp.status = 404
  /\ ValueOf(resp, "Access-Control-Allow-Origin") = "*"

\* The CORS header set followed by the security header set.
FullHeaderSet(out) ==
  /\ HasHeader(out, "Access-Control-Allow-Methods")
  /\ ValueOf(out, "Access-Control-Allow-Methods") = FixedMethods
  /\ HasHeader(out, "Access-Control-Allow-Headers")
  /\ HasHeader(out, "X-Content-Type-Options")
  /\ ValueOf(out, "X-Content-Type-Options") = "nosniff"
  /\ HasHeader(out, "Referrer-Policy")
  /\ Position(out, "Access-Control-Allow-Methods") < Position(out, "Access-Control-Allow-Headers")
  /\ Position(out, "Access-Control-Allow-Headers") < Position(out, "X-Content-Type-Options")
  /\ Position(out, "X-Content-Type-Options") < Position(out, "Referrer-Policy")

\* C6: every request the listener answers, the requests refused before
\* their headers are parsed included, gets a response that carries the CORS
\* header set followed by the security header set.
C6_EveryResponseCarriesHeaderSet ==
  req # NoRequest => (resp.sent /\ FullHeaderSet(resp))

\* C7: an OPTIONS request, whatever its path, the tree and the settings, is
\* answered 204 without body, with the full header set, and without the
\* handler looking at the file system.
C7_PreflightNoContent ==
  (req.line = "ok" /\ req.method = "OPTIONS")
    => /\ resp.sent
       /\ resp.status = 204
       /\ resp.body = "none"
       /\ FullHeaderSet(resp)
       /\ ~resp.statted
       /\ ~resp.rewritten

C7_Witness ==
  /\ req.line = "ok"
  /\ req.method = "OPTIONS"
  /\ req.path = Target(<<"missing">>, FALSE, FALSE)
  /\ cfg.spa
  /\ cfg.allow = <<OriginA, ",", OriginB>>
  /\ resp.status = 204

FallbackCase ==
  /\ req.line = "ok"
  /\ req.method = "GET"
  /\ ~PathExists(tree, req.path)
  /\ ~StartsWithWellKnown(req.path)

\* C8 as claimed: a GET of a path that does not exist and is not under the
\* well-known prefix gets 200 with the root index document when the
\* fallback is enabled, and 404 when it is disabled.
C8_FallbackAlways200 ==
  FallbackCase
    => IF cfg.spa
       THEN resp.status = 200 /\ resp.body = "root index document"
       ELSE resp.status = 404

\* C8 as amended: such a GET is, with the fallback enabled, served as
\* /index.html: 200 with the root index document when the root holds
\* index.html and the request has no If-Modified-Since that the document
\* satisfies, 304 without body when it has one, 404 when the root holds no
\* index.html; with the fallback disabled it gets 404.
C8_FallbackServesIndex ==
  FallbackCase
    => /\ resp.sent
       /\ IF ~cfg.spa \/ <<"index.html">> \notin tree.files
          THEN resp.status = 404
          ELSE IF req.ims
               THEN resp.status = 304 /\ resp.body = "none"
               ELSE resp.status = 200 /\ resp.body = "root index document"

C8_Witness ==
  /\ FallbackCase
  /\ cfg.spa
  /\ req.path = Target(<<"missing">>, FALSE, TRUE)
  /\ resp.status = 200
  /\ resp.body = "root index document"

IsPort(tok) == tok \in {"8000", "80"}

\* h without its port suffix: a final ":" and port, after a name without
\* ":" or after a bracketed IPv6 literal.
WithoutPortSuffix(h) ==
  IF /\ Len(h) >= 3
     /\ h[Len(h) - 1] = ":"
     /\ IsPort(h[Len(h)])
     /\ \/ h[Len(h) - 2] = "]"
        \/ \A i \in 1..(Len(h) - 2) : h[i] # ":"
  THEN SubSeq(h, 1, Len(h) - 2)
  ELSE h

\* C10: a GET with Host h and target p is answered 307 with Location
\* https://<h without its port suffix>:<HTTPS port><p>.
C10_RedirectLocation ==
  (rreq.method = "GET" /\ rreq.host # {})
    => /\ rresp.status = 307
       /\ rresp.location = <<"https://">> \o WithoutPortSuffix(HeaderValue(rreq.host))
                             \o <<":", rport>> \o RawPath(rreq.path)

(***************************************************************************)
(* More claims about the redirect listener.                                *)
(***************************************************************************)
\* C11: the redirect listener answers every request, whatever its method,
\* with a 307 redirect to the HTTPS origin, and sends neither content nor
\* metadata of a file under the root.
C11_RedirectEveryMethod ==
  rreq # NoRedirectRequest
    => /\ rresp.status = 307
       /\ rresp.headers = {"Location"}
       /\ rresp.body = "none"

(***************************************************************************)
(* Claims about main.                                                      *)
(***************************************************************************)
BindEvents ==
  {"https bound", "https bind: OSError", "https bind: OverflowError",
   "http bound", "http bind: OSError", "http bind: OverflowError"}
NothingBound == events \cap BindEvents = {}
NothingStarted ==
  /\ \A l \in Listeners : srv[l] = "none"
  /\ \A l \in Listeners : threads[l] = "none"
\* The workers were started (line 417 was reached).
Started == \E l \in Listeners : threads[l] # "none"

\* C12: after an interrupt received while the listeners serve, the process
\* has exited only with every started worker terminated and every
\* listening socket closed by its listener.
C12_InterruptStopsListeners ==
  (mpc = "exited" /\ "interrupt: shutting down" \in events)
    => \A l \in Listeners : threads[l] # "serving" /\ srv[l] # "listening"

\* C13: a client that connected and does not stall is eventually answered,
\* whatever the other clients of either listener do.
C13_StallsAreIsolated ==
  \A c \in Clients :
    (client[c].stage = "queued" /\ client[c].stall = "none")
      ~> (client[c].stage = "answered")

\* C14: a failed bind of the HTTPS listener ends the process with status 4,
\* the redirect listener not constructed and no worker started; and status
\* 4 comes from a failed HTTPS bind only.
C14_HttpsBindFailure ==
  /\ (events \cap {"https bind: OSError", "https bind: OverflowError"} # {})
       => /\ mpc = "exited"
          /\ exit_status = {4}
          /\ NothingStarted
          /\ events \cap {"http bound", "http bind: OSError", "http bind: OverflowError"} = {}
  /\ exit_status = {4} => "https bind: OSError" \in events

\* C15: the redirect worker is started exactly when --no-http-redirect is
\* absent and the redirect bind succeeded; a failed redirect bind is logged
\* as a warning, the HTTPS worker is still started, and the process does
\* not exit before that.
C15_RedirectBindNonFatal ==
  /\ Started
       => (threads["http"] # "none"
             <=> (~args.no_http_redirect /\ "http bound" \in events))
  /\ (events \cap {"http bind: OSError", "http bind: OverflowError"} # {})
       => /\ "warning: redirector not started" \in events
          /\ mpc = "exited" => threads["https"] # "none"

\* C16: with a root that is missing or not a directory the process exits
\* with status 2 and does nothing else: ensure_certificate is not called,
\* no file is created, no socket is bound, with or without --generate-only.
C16_InvalidRootExits2 ==
  args.root # "dir"
    => /\ mpc \in {"start", "exited"}
       /\ mpc = "exited" => exit_status = {2}
       /\ ncalls = 0 /\ nruns = 0 /\ tmp = {}
       /\ \A q \in Procs : pc[q] = "idle"
       /\ NothingBound
       /\ NothingStarted

C16_Witness ==
  /\ args.root = "file"
  /\ args.generate_only
  /\ exit_status = {2}

\* C17: no socket is bound before ensure_certificate has returned its
\* paths; when it raises, the process exits with status 3, after one call,
\* with no socket bound and no worker started.
C17_CertificateBeforeListeners ==
  /\ (~NothingBound \/ ~NothingStarted)
       => prev.result = "returned" /\ pc[MainProc] = "idle"
  /\ prev.result \in {"RuntimeError", "exception"}
       => /\ mpc \in {"ensure", "exited"}
          /\ mpc = "exited" => exit_status = {3}
          /\ ncalls = 1
          /\ NothingBound
          /\ NothingStarted

C17_Witness ==
  /\ prev.result = "RuntimeError"
  /\ exit_status = {3}
  /\ ~args.generate_only

\* C18: with --generate-only, a valid root and a successful provisioning,
\* the process prints the paths and exits with status 0; no socket is
\* bound and no worker started, whatever the other flags.
C18_GenerateOnly ==
  args.generate_only
    => /\ NothingBound
       /\ NothingStarted
       /\ mpc \in {"start", "ensure", "exited"}
       /\ (mpc = "exited" /\ args.root = "dir" /\ prev.result = "returned")
            => exit_status = {0} /\ "printed paths" \in events

C18_Witness ==
  /\ args.generate_only
  /\ args.port = "70000"
  /\ ~args.no_http_redirect
  /\ args.flags.spa
  /\ prev.result = "returned"
  /\ exit_status = {0}
  /\ "printed paths" \in events

(***************************************************************************)
(* More claims about the provisioner.                                      *)
(***************************************************************************)
\* C19: a call that found both files of its base name takes no step that
\* writes, replaces or deletes a file or starts a generation run, tries no
\* strategy, and returns the two paths, whatever run the files are of.
C19_ExistingPairReused ==
  [][\A p \in Procs :
       (pc[p] # "idle" /\ cur[p].hadCert /\ cur[p].hadKey)
         => /\ fs' = fs
            /\ tmp' = tmp
            /\ nruns' = nruns
            /\ pc'[p] \in {"check_key", "idle"}
            /\ pc'[p] = "idle"
                 => /\ prev'.result = "returned"
                    /\ prev'.ret = <<CertOf(cur[p]), KeyOf(cur[p])>>
                    /\ prev'.tried = <<>>
                    /\ prev'.wrote = {}]_vars

C19_Witness ==
  /\ prev.hadCert
  /\ prev.hadKey
  /\ prev.result = "returned"
  /\ prev.certAtEnd = OldRun
  /\ prev.keyAtEnd = OldRun

\* C20: once generate_self_signed_with_openssl has returned or raised, the
\* temporary configuration file it created no longer exists.
C20_TempConfigRemoved ==
  \A t \in tmp :
    \E p \in Procs :
      /\ t = TmpOf(p)
      /\ pc[p] \in {"o_run", "o_keyout", "o_certout", "o_finally"}

(***************************************************************************)
(* Claims about the certificates.                                          *)
(***************************************************************************)
\* C21: every certificate written for a call with validity days d is valid
\* from the time of the generation run minus one day to that time plus d
\* days, d + 1 days in all, whichever strategy wrote it.
C21_ValidityWindow ==
  \A c \in issued :
    /\ c.cert.notBefore = c.now - 1
    /\ c.cert.notAfter = c.now + c.days
    /\ c.cert.notAfter - c.cert.notBefore = c.days + 1

\* The profile C22 names, validity left out.
ClaimedProfile ==
  [subject |-> <<"CN", "localhost">>,
   key |-> [alg |-> "RSA", bits |-> 2048],
   san |-> {"localhost", "127.0.0.1", "::1"},
   bc |-> [ca |-> FALSE, critical |-> TRUE],
   eku |-> {"serverAuth"},
   ku |-> [usages |-> {"digitalSignature", "keyEncipherment"}, critical |-> TRUE]]

ProfileOf(cert) ==
  [subject |-> cert.subject, key |-> cert.key, san |-> cert.san.names,
   bc |-> cert.bc, eku |-> cert.eku.usages, ku |-> cert.ku]

\* C22: the certificates of both strategies have the same profile: subject
\* CN=localhost, RSA 2048, SAN {localhost, 127.0.0.1, ::1}, BasicConstraints
\* CA:false critical, ExtendedKeyUsage serverAuth, KeyUsage
\* {digitalSignature, keyEncipherment} critical.
C22_EquivalentProfiles ==
  \A c \in issued : ProfileOf(c.cert) = ClaimedProfile

(***************************************************************************)
(* More claims about the TLS listener.                                     *)
(***************************************************************************)
\* C23: a response carries Access-Control-Allow-Headers once: the value of
\* the request's Access-Control-Request-Headers when the request has that
\* header, an empty value included, and "*" exactly when it has none.
C23_AllowHeadersEcho ==
  resp.sent
    => /\ HeaderCount(resp, "Access-Control-Allow-Headers") = 1
       /\ req.acrh # {}
            => ValueOf(resp, "Access-Control-Allow-Headers") = HeaderValue(req.acrh)
       /\ req.acrh = {}
            <=> ValueOf(resp, "Access-Control-Allow-Headers") = "*"

\* The values of header n in a response.
ValuesOf(out, n) == {out.headers[i][2] : i \in {j \in 1..Len(out.headers) : out.headers[j][1] = n}}
Optional(out, n, value, flag) ==
  /\ HeaderCount(out, n) = (IF flag THEN 1 ELSE 0)
  /\ ValuesOf(out, n) \subseteq {value}

\* C24: in a response, Access-Control-Allow-Credentials: true and the three
\* cross-origin isolation headers are each present exactly when their own
\* flag is set, whatever the other flags, the origin policy and the grant.
C24_FlagsControlOptionalHeaders ==
  resp.sent
    => /\ Optional(resp, "Access-Control-Allow-Credentials", "true", cfg.creds)
       /\ Optional(resp, "Cross-Origin-Embedder-Policy", "require-corp", cfg.coep)
       /\ Optional(resp, "Cross-Origin-Opener-Policy", "same-origin", cfg.coop)
       /\ Optional(resp, "Cross-Origin-Resource-Policy", "same-origin", cfg.corp)

C24_Witness ==
  /\ resp.sent
  /\ cfg.allow # <<"*">>
  /\ req.origin = {OriginC}
  /\ ~HasHeader(resp, "Access-Control-Allow-Origin")
  /\ cfg.creds /\ ~cfg.coep /\ cfg.coop /\ ~cfg.corp
  /\ HasHeader(resp, "Access-Control-Allow-Credentials")
  /\ ~HasHeader(resp, "Cross-Origin-Embedder-Policy")
  /\ HasHeader(resp, "Cross-Origin-Opener-Policy")
  /\ ~HasHeader(resp, "Cross-Origin-Resource-Policy")

(***************************************************************************)
(* Claims about concurrent callers.                                        *)
(***************************************************************************)
\* C25: two calls for one base name on a directory that held neither file,
\* with a strategy available and no I/O fault, both return, and the key
\* file and the certificate file they leave are of one generation run.
C25_ConcurrentCallsLeaveOnePair ==
  ( /\ \A p \in Procs : pc[p] = "idle"
    /\ env.cryptography \/ env.openssl
    /\ nfaults = 0
    /\ Ended(prev) /\ Ended(last)
    /\ prev.name = last.name )
    => /\ prev.result = "returned"
       /\ last.result = "returned"
       /\ fs[CertOf(prev)] # {}
       /\ fs[CertOf(prev)] = fs[KeyOf(prev)]

====
